---- MODULE Spec2Model ----
(***************************************************************************)
(* Model of analithops/utils.py: the loader data_input, which walks a      *)
(* directory tree and accumulates one record per line of every             *)
(* output-*.jsonl file it finds, and the aggregator                        *)
(* compute_mean_runtime_per_nlambdas, which turns such a dataset into one  *)
(* mean runtime per nlambdas value.                                        *)
(*                                                                         *)
(* Spec     runs data_input on a bounded directory tree, one action per    *)
(*          iteration of its loops, and then the aggregator on the         *)
(*          dataset it returned.                                           *)
(* SpecAgg  runs the aggregator on every dataset of a bounded family.      *)
(***************************************************************************)
EXTENDS Integers, Sequences, FiniteSets, TLC

(***************************************************************************)
(* Bounds                                                                  *)
(***************************************************************************)
\* lines of one output file: 0..MaxLines
MaxLines == 2
\* records of a dataset handed directly to the aggregator (SpecAgg)
MaxRecs == 3

(***************************************************************************)
(* The directory tree.  Directory and file names are sequences of          *)
(* characters, so that the glob patterns and int() work on the characters. *)
(***************************************************************************)
Root == "root"
Dirs == {"d1", "d2", "d3"}
\* root/d1, root/d2, root/d1/d3
DirParent == [d \in Dirs |-> IF d = "d3" THEN "d1" ELSE Root]
Files == {1, 2, 3}
\* directory names the tree may use
Names == {<<"3">>, <<"5">>, <<"3", "a">>, <<"x">>}
\* file names the tree may use for file f
FileNames(f) ==
    IF f = 3 THEN {<<"output-", "3", ".jsonl">>, <<"notes-", "3", ".txt">>}
    ELSE {<<"output-", IF f = 1 THEN "1" ELSE "2", ".jsonl">>}
\* directories a file may be placed in
Placements == {p \in [Files -> Dirs] : p[1] = "d1" /\ p[2] \in {"d1", "d3"}}
\* values of the forbidden parameter
ForbiddenSets == {{}, {<<"5">>}}

Digits == {"0", "1", "2", "3", "4", "5", "6", "7", "8", "9"}
DigitVal ==
    [c \in Digits |->
        CASE c = "0" -> 0 [] c = "1" -> 1 [] c = "2" -> 2 [] c = "3" -> 3
          [] c = "4" -> 4 [] c = "5" -> 5 [] c = "6" -> 6 [] c = "7" -> 7
          [] c = "8" -> 8 [] c = "9" -> 9]

VARIABLES
    dirName,      \* tree: the name of each directory
    fileDir,      \* tree: the directory each file is in
    fileName,     \* tree: the name of each file
    fileLines,    \* tree: the number of lines of each file
    forbidden,    \* data_input's parameter forbidden
    map_reduce,   \* data_input's parameter map_reduce
    pc,           \* position: "start", "dirs", "files", "loaded", "aggregated", "error"
    err,          \* the exception raised, "none" when none
    todo,         \* paths the outer glob has yet to yield
    path,         \* the path of the current outer iteration
    files,        \* files the inner glob has yet to yield
    i,            \* enumerate's index of the inner loop
    full,         \* the accumulated records
    origin,       \* for each record of full: the pass and line it was read in
    processed,    \* the passes (path, file) of the inner loop so far, in order
    df,           \* the dataset returned by data_input
    result        \* what compute_mean_runtime_per_nlambdas returned

vars == <<dirName, fileDir, fileName, fileLines, forbidden, map_reduce, pc, err,
          todo, path, files, i, full, origin, processed, df, result>>

treeVars == <<dirName, fileDir, fileName, fileLines, forbidden, map_reduce>>

(***************************************************************************)
(* Paths and globbing                                                      *)
(***************************************************************************)
\* the directories strictly above directory d, Root excluded
RECURSIVE DirAncestors(_)
DirAncestors(d) ==
    IF DirParent[d] = Root THEN {}
    ELSE {DirParent[d]} \cup DirAncestors(DirParent[d])

\* the directories a file lies under, at any depth
FileAncestors(f) == {fileDir[f]} \cup DirAncestors(fileDir[f])

\* the glob pattern [0-9]* : a first character that is a digit, then anything
MatchesDigitStar(name) == Len(name) >= 1 /\ name[1] \in Digits

\* the glob pattern output-*.jsonl
MatchesOutputJsonl(name) ==
    Len(name) = 3 /\ name[1] = "output-" /\ name[3] = ".jsonl"

\* data_path.glob('**/[0-9]*') : every entry below the root, at any depth
GlobNumeric == {d \in Dirs : MatchesDigitStar(dirName[d])}

\* path.glob('**/output-*.jsonl') : every matching file below path, at any depth
GlobOutput(d) ==
    {f \in Files : d \in FileAncestors(f) /\ MatchesOutputJsonl(fileName[f])}

(***************************************************************************)
(* int(name)                                                               *)
(***************************************************************************)
AllDigits(name) == \A k \in 1..Len(name) : name[k] \in Digits

RECURSIVE DigitsValue(_)
DigitsValue(name) ==
    IF Len(name) = 0 THEN 0
    ELSE 10 * DigitsValue(SubSeq(name, 1, Len(name) - 1)) + DigitVal[name[Len(name)]]

\* int(name) raises ValueError unless the name is a decimal numeral
IntRaises(name) == Len(name) = 0 \/ ~AllDigits(name)
IntOf(name) == DigitsValue(name)

(***************************************************************************)
(* The content of the files                                                *)
(***************************************************************************)
\* json.loads of line k of file f
Line(f, k) ==
    [host_submit_tstamp |-> 10 * f + k, host_result_done_tstamp |-> 10 * f + k + 5]

(***************************************************************************)
(* data_input                                                              *)
(***************************************************************************)
NoPath == "none"

\* the records appended for the n lines of file f, read through directory d
\* as the file of index idx
NewRecords(f, n, d, idx) ==
    [k \in 1..n |->
        [host_submit_tstamp |-> Line(f, k).host_submit_tstamp,
         host_result_done_tstamp |-> Line(f, k).host_result_done_tstamp,
         nlambdas |-> IntOf(dirName[d]),
         nrun |-> idx,
         is_worker |-> TRUE]]

NewOrigins(f, n, d) == [k \in 1..n |-> [dir |-> d, file |-> f, line |-> k]]

\* a bug that would mark the first record of the list instead of the last
MarkReducerFirst(recs) == [recs EXCEPT ![1].is_worker = FALSE]

\* full[-1]['is_worker'] = False, on a non-empty list
MarkReducer(recs) == [recs EXCEPT ![Len(recs)].is_worker = FALSE]

\* pl.DataFrame(full, schema=formats): the rows of full, in order
DataFrame(recs) == recs

Init ==
    /\ dirName \in {n \in [Dirs -> Names] : n["d1"] # n["d2"]}
    /\ fileDir \in Placements
    /\ fileName \in {n \in [Files -> UNION {FileNames(f) : f \in Files}] :
                        \A f \in Files : n[f] \in FileNames(f)}
    /\ fileLines \in [Files -> 0..MaxLines]
    /\ forbidden \in ForbiddenSets
    /\ map_reduce \in BOOLEAN
    /\ pc = "start"
    /\ err = "none"
    /\ todo = {}
    /\ path = NoPath
    /\ files = {}
    /\ i = 0
    /\ full = <<>>
    /\ origin = <<>>
    /\ processed = <<>>
    /\ df = <<>>
    /\ result = [status |-> "none", rows |-> <<>>]

\* full = [] and the start of the outer glob
Discover ==
    /\ pc = "start"
    /\ pc' = "dirs"
    /\ todo' = GlobNumeric
    /\ UNCHANGED <<treeVars, err, path, files, i, full, origin, processed, df, result>>

\* the outer glob walks the tree top-down: a directory is yielded before
\* the entries below it; the order among the others is the file system's
NextPaths == {d \in todo : DirAncestors(d) \cap todo = {}}

\* an outer iteration whose name is in forbidden: continue
SkipForbidden ==
    /\ pc = "dirs"
    /\ \E d \in NextPaths :
        /\ dirName[d] \in forbidden
        /\ todo' = todo \ {d}
        /\ path' = d
    /\ UNCHANGED <<treeVars, pc, err, files, i, full, origin, processed, df, result>>

\* an outer iteration whose name is not in forbidden: the inner glob starts
EnterDir ==
    /\ pc = "dirs"
    /\ \E d \in NextPaths :
        /\ dirName[d] \notin forbidden
        /\ todo' = todo \ {d}
        /\ path' = d
        /\ files' = GlobOutput(d)
        /\ i' = 0
        /\ pc' = IF GlobOutput(d) = {} THEN "dirs" ELSE "files"
    /\ UNCHANGED <<treeVars, err, full, origin, processed, df, result>>

\* one iteration of the inner loop: read every line of one file, then mark
ReadFile ==
    /\ pc = "files"
    /\ \E f \in files :
        LET n == fileLines[f]
            appended == full \o NewRecords(f, n, path, i)
        IN
        /\ processed' = Append(processed, <<path, f>>)
        /\ files' = files \ {f}
        /\ IF n > 0 /\ IntRaises(dirName[path])
           THEN /\ pc' = "error"
                /\ err' = "ValueError"
                /\ UNCHANGED <<full, origin, i>>
           ELSE IF map_reduce /\ appended = <<>>
           THEN /\ pc' = "error"
                /\ err' = "IndexError"
                /\ UNCHANGED <<full, origin, i>>
           ELSE /\ full' = IF map_reduce THEN MarkReducer(appended) ELSE appended
                /\ origin' = origin \o NewOrigins(f, n, path)
                /\ i' = i + 1
                /\ pc' = IF files \ {f} = {} THEN "dirs" ELSE "files"
                /\ err' = err
    /\ UNCHANGED <<treeVars, todo, path, df, result>>

\* the outer glob is exhausted: return pl.DataFrame(full, schema=formats)
Return ==
    /\ pc = "dirs"
    /\ todo = {}
    /\ pc' = "loaded"
    /\ df' = DataFrame(full)
    /\ UNCHANGED <<treeVars, err, todo, path, files, i, full, origin, processed, result>>

(***************************************************************************)
(* compute_mean_runtime_per_nlambdas                                       *)
(***************************************************************************)
Key(r) == <<r.nlambdas, r.nrun>>

SetMin(S) == CHOOSE x \in S : \A y \in S : x <= y
SetMax(S) == CHOOSE x \in S : \A y \in S : x >= y

\* df.filter(pl.col('is_worker') == False)
FilterReducers(d) == SelectSeq(d, LAMBDA r : r.is_worker = FALSE)

\* rdf: the reducer records, or every record when there is none
Rdf(d) == IF Len(FilterReducers(d)) = 0 THEN d ELSE FilterReducers(d)

\* the groups of group_by(['nlambdas', 'nrun'], maintain_order=True):
\* the distinct keys, in the order of their first record
RECURSIVE GroupKeys(_)
GroupKeys(d) ==
    IF Len(d) = 0 THEN <<>>
    ELSE LET front == GroupKeys(SubSeq(d, 1, Len(d) - 1))
             k == Key(d[Len(d)])
         IN IF \E j \in 1..Len(front) : front[j] = k THEN front ELSE Append(front, k)

\* the values of a column over the records of one group
SubmitOf(d, k) == {d[x].host_submit_tstamp : x \in {y \in 1..Len(d) : Key(d[y]) = k}}
DoneOf(d, k) == {d[x].host_result_done_tstamp : x \in {y \in 1..Len(d) : Key(d[y]) = k}}

\* df.group_by(...).agg(pl.col('host_submit_tstamp').min().alias('timestamp'))
HostSubmitTimes(d) ==
    LET keys == GroupKeys(d)
    IN [j \in 1..Len(keys) |->
           [nlambdas |-> keys[j][1], nrun |-> keys[j][2],
            timestamp |-> SetMin(SubmitOf(d, keys[j]))]]

\* the same group_by with the groups in ascending key order, as a
\* group_by that lost maintain_order=True could return them
RECURSIVE SortedKeys(_)
SortedKeys(S) ==
    IF S = {} THEN <<>>
    ELSE LET k == CHOOSE x \in S : \A y \in S :
                      x[1] < y[1] \/ (x[1] = y[1] /\ x[2] <= y[2])
         IN <<k>> \o SortedKeys(S \ {k})

HostResultDoneTimesSorted(d) ==
    LET r == Rdf(d)
        keys == SortedKeys({Key(r[x]) : x \in 1..Len(r)})
    IN [j \in 1..Len(keys) |->
           [nlambdas |-> keys[j][1], nrun |-> keys[j][2],
            timestamp |-> SetMax(DoneOf(r, keys[j]))]]

\* rdf.group_by(...).agg(pl.col('host_result_done_tstamp').max().alias('timestamp'))
HostResultDoneTimes(d) ==
    LET r == Rdf(d)
        keys == GroupKeys(r)
    IN [j \in 1..Len(keys) |->
           [nlambdas |-> keys[j][1], nrun |-> keys[j][2],
            timestamp |-> SetMax(DoneOf(r, keys[j]))]]

\* a - b on two columns: elementwise on equal lengths, a column of one
\* value is broadcast, any other pair of lengths is an error
SeriesSubRaises(a, b) == Len(a) # Len(b) /\ Len(a) # 1 /\ Len(b) # 1
SeriesSub(a, b) ==
    IF Len(a) = Len(b) THEN [j \in 1..Len(a) |-> a[j] - b[j]]
    ELSE IF Len(a) = 1 THEN [j \in 1..Len(b) |-> a[1] - b[j]]
    ELSE [j \in 1..Len(a) |-> a[j] - b[1]]

Column(t) == [j \in 1..Len(t) |-> t[j].timestamp]

\* df_runs after with_columns and rename: one row per group of df, its
\* timestamp column replaced by the difference and renamed to time
DfRunsRaises(d) ==
    SeriesSubRaises(Column(HostResultDoneTimes(d)), Column(HostSubmitTimes(d)))
DfRuns(d) ==
    LET runs == HostSubmitTimes(d)
        diff == SeriesSub(Column(HostResultDoneTimes(d)), Column(HostSubmitTimes(d)))
    IN [j \in 1..Len(runs) |->
           [nlambdas |-> runs[j].nlambdas, nrun |-> runs[j].nrun, time |-> diff[j]]]

\* a mean as the fraction num/den in lowest terms, den > 0
Abs(x) == IF x < 0 THEN -x ELSE x
RECURSIVE Gcd(_, _)
Gcd(a, b) == IF b = 0 THEN a ELSE Gcd(b, a % b)
Fraction(num, den) ==
    LET g == Gcd(Abs(num), den)
    IN [num |-> num \div g, den |-> den \div g]

RECURSIVE SeqSum(_)
SeqSum(s) == IF Len(s) = 0 THEN 0 ELSE s[1] + SeqSum(Tail(s))

\* a bug that would total the group instead of averaging it
MeanAsSum(s) == Fraction(SeqSum(s), 1)

\* pl.col('time').mean() over the rows of one group
Mean(s) == Fraction(SeqSum(s), Len(s))

\* the time column of the rows of runs whose nlambdas is n
TimesOf(runs, n) ==
    LET rows == SelectSeq(runs, LAMBDA r : r.nlambdas = n)
    IN [j \in 1..Len(rows) |-> rows[j].time]

\* group_by(['nlambdas']).agg(pl.col('time').mean()): one row per group,
\* in no particular order
GroupMeans(runs) ==
    {[nlambdas |-> n, time |-> Mean(TimesOf(runs, n))] :
        n \in {runs[j].nlambdas : j \in 1..Len(runs)}}

\* a bug that would sort descending
RECURSIVE SortDescending(_)
SortDescending(rows) ==
    IF rows = {} THEN <<>>
    ELSE LET r == CHOOSE x \in rows : \A y \in rows : x.nlambdas >= y.nlambdas
         IN <<r>> \o SortDescending(rows \ {r})

\* .sort(pl.col('nlambdas'))
RECURSIVE SortByNlambdas(_)
SortByNlambdas(rows) ==
    IF rows = {} THEN <<>>
    ELSE LET r == CHOOSE x \in rows : \A y \in rows : x.nlambdas <= y.nlambdas
         IN <<r>> \o SortByNlambdas(rows \ {r})

ComputeMeanRuntimePerNlambdas(d) ==
    IF DfRunsRaises(d) THEN [status |-> "ShapeError", rows |-> <<>>]
    ELSE [status |-> "ok", rows |-> SortByNlambdas(GroupMeans(DfRuns(d)))]

\* compute_mean_runtime_per_nlambdas(df)
Aggregate ==
    /\ pc = "loaded"
    /\ pc' = "aggregated"
    /\ result' = ComputeMeanRuntimePerNlambdas(df)
    /\ UNCHANGED <<treeVars, err, todo, path, files, i, full, origin, processed, df>>

Next == Discover \/ SkipForbidden \/ EnterDir \/ ReadFile \/ Return \/ Aggregate

Spec == Init /\ [][Next]_vars

(***************************************************************************)
(* The aggregator on its own: every dataset of at most MaxRecs records     *)
(***************************************************************************)
NlambdasValues == {1, 2}
NrunValues == {0, 1}
\* the (host_submit_tstamp, host_result_done_tstamp) pairs of a record
Stamps == {<<0, 2>>, <<1, 2>>, <<0, 5>>}

Records ==
    {[host_submit_tstamp |-> t[1], host_result_done_tstamp |-> t[2],
      nlambdas |-> n, nrun |-> r, is_worker |-> w] :
        t \in Stamps, n \in NlambdasValues, r \in NrunValues, w \in BOOLEAN}

InitAgg ==
    /\ dirName = [d \in Dirs |-> <<"x">>]
    /\ fileDir = [f \in Files |-> "d1"]
    /\ fileName = [f \in Files |-> <<"notes-", "3", ".txt">>]
    /\ fileLines = [f \in Files |-> 0]
    /\ forbidden = {}
    /\ map_reduce = FALSE
    /\ pc = "loaded"
    /\ err = "none"
    /\ todo = {}
    /\ path = NoPath
    /\ files = {}
    /\ i = 0
    /\ full = <<>>
    /\ origin = <<>>
    /\ processed = <<>>
    /\ \E n \in 0..MaxRecs : df \in [1..n -> Records]
    /\ result = [status |-> "none", rows |-> <<>>]

NextAgg == Aggregate

SpecAgg == InitAgg /\ [][NextAgg]_vars

(***************************************************************************)
(* Properties of data_input (checked under Spec)                           *)
(***************************************************************************)
RECURSIVE SumLines(_)
SumLines(S) ==
    IF S = {} THEN 0
    ELSE LET f == CHOOSE x \in S : TRUE IN fileLines[f] + SumLines(S \ {f})

\* the distinct output-*.jsonl files below some discovered, non-excluded directory
DiscoveredFiles ==
    {f \in Files : \E d \in GlobNumeric : dirName[d] \notin forbidden /\ f \in GlobOutput(d)}

\* the positions of df whose record was read in the pass of file f through directory d
PassRecords(d, f) ==
    {x \in 1..Len(origin) : origin[x].dir = d /\ origin[x].file = f}

\* C1: when data_input returns, the number of records of the dataset is the
\* total number of lines of the distinct discovered output-*.jsonl files:
\* every line yields exactly one record, none dropped and none read twice.
C1_CountEqualsLines ==
    pc = "loaded" =>
        /\ Len(df) = SumLines(DiscoveredFiles)
        /\ \A x, y \in 1..Len(origin) :
              (origin[x].file = origin[y].file /\ origin[x].line = origin[y].line) => x = y

\* C2: with map_reduce=True, the pass of a file of zero lines does not make
\* the loader fail, adds no record and changes no accumulated record.
C2_EmptyFileHarmless ==
    [][(/\ pc = "files"
        /\ map_reduce
        /\ Len(processed') = Len(processed) + 1
        /\ fileLines[processed'[Len(processed')][2]] = 0)
       => (pc' # "error" /\ full' = full)]_vars

\* C3: the returned dataset holds no record read from a file that lies, at
\* any depth, under a directory whose name is in forbidden.
C3_ForbiddenContributesNothing ==
    pc = "loaded" =>
        \A x \in 1..Len(df) :
            \A a \in FileAncestors(origin[x].file) : dirName[a] \notin forbidden

C5_NrunUniquePerFile ==
    pc = "loaded" =>
        \A x, y \in 1..Len(df) :
            Key(df[x]) = Key(df[y]) => origin[x].file = origin[y].file

\* C6: only directories whose name is purely numeric are treated as
\* worker-count directories: no record is read through a directory whose
\* name holds a non-digit, and such a directory does not make the call fail
\* on int(name).
C6_OnlyNumericNamesRead ==
    /\ \A x \in 1..Len(origin) : AllDigits(dirName[origin[x].dir])
    /\ err # "ValueError"

(***************************************************************************)
(* Properties of compute_mean_runtime_per_nlambdas                         *)
(***************************************************************************)
Keys(t) == [j \in 1..Len(t) |-> <<t[j].nlambdas, t[j].nrun>>]

KeySet(d) == {Key(d[x]) : x \in 1..Len(d)}

NlambdasOf(d) == {d[x].nlambdas : x \in 1..Len(d)}

NrunsOf(d, n) == {d[x].nrun : x \in {y \in 1..Len(d) : d[y].nlambdas = n}}

\* the elapsed time the aggregator uses for the run k
ElapsedOf(d, k) ==
    LET runs == DfRuns(d)
    IN runs[CHOOSE j \in 1..Len(runs) : <<runs[j].nlambdas, runs[j].nrun>> = k].time

RECURSIVE SumElapsed(_, _, _)
SumElapsed(d, n, S) ==
    IF S = {} THEN 0
    ELSE LET r == CHOOSE x \in S : TRUE
         IN ElapsedOf(d, <<n, r>>) + SumElapsed(d, n, S \ {r})

\* C7: the returned table has exactly one row per distinct nlambdas value of
\* the input and its rows are in strictly ascending nlambdas order.
C7_OneRowPerNlambdasAscending ==
    (pc = "aggregated" /\ result.status = "ok") =>
        /\ {result.rows[j].nlambdas : j \in 1..Len(result.rows)} = NlambdasOf(df)
        /\ Len(result.rows) = Cardinality(NlambdasOf(df))
        /\ \A j \in 1..(Len(result.rows) - 1) :
               result.rows[j].nlambdas < result.rows[j + 1].nlambdas

\* a table of two rows returned for a dataset that starts with the larger nlambdas
C7_Witness ==
    /\ pc = "aggregated"
    /\ result.status = "ok"
    /\ Len(result.rows) = 2
    /\ df[1].nlambdas > df[Len(df)].nlambdas

\* C8: for every dataset and every (nlambdas, nrun) pair with a completion
\* record, the elapsed time used for the pair is the maximum
\* host_result_done_tstamp of the pair's completion records minus the
\* minimum host_submit_tstamp of the pair's records.
C8_ElapsedOfOwnPair ==
    (pc = "aggregated" /\ result.status = "ok") =>
        \A k \in KeySet(Rdf(df)) :
            ElapsedOf(df, k) = SetMax(DoneOf(Rdf(df), k)) - SetMin(SubmitOf(df, k))

\* C9: the time of the row of nlambdas n is the arithmetic mean of the
\* elapsed times of the distinct runs of n, each run counted once:
\* sum of the elapsed times = time * number of runs.
C9_TimeIsMeanOverRuns ==
    (pc = "aggregated" /\ result.status = "ok") =>
        \A j \in 1..Len(result.rows) :
            LET row == result.rows[j]
                runs == NrunsOf(df, row.nlambdas)
            IN /\ row.time.den > 0
               /\ SumElapsed(df, row.nlambdas, runs) * row.time.den
                      = row.time.num * Cardinality(runs)

\* a row averaging two runs, one of them of several records, whose mean is
\* not a whole number
C9_Witness ==
    /\ pc = "aggregated"
    /\ result.status = "ok"
    /\ \E j \in 1..Len(result.rows) :
        /\ Cardinality(NrunsOf(df, result.rows[j].nlambdas)) = 2
        /\ result.rows[j].time.den = 2
        /\ Len(df) = 3
        /\ \A x \in 1..Len(df) : df[x].nlambdas = result.rows[j].nlambdas

\* C10: for every dataset returned by data_input the start-time table and
\* the end-time table hold the same (nlambdas, nrun) keys in the same order,
\* so the subtraction is defined and pairs each run's start with its own end.
C10_TablesAligned ==
    pc \in {"loaded", "aggregated"} =>
        /\ Keys(HostSubmitTimes(df)) = Keys(HostResultDoneTimes(df))
        /\ ~DfRunsRaises(df)

\* an aggregated map_reduce dataset with worker records and several runs
\* whose keys first appear in descending order
C10_Witness ==
    /\ pc = "aggregated"
    /\ map_reduce
    /\ result.status = "ok"
    /\ Len(HostSubmitTimes(df)) >= 3
    /\ \E x \in 1..Len(df) : df[x].is_worker
    /\ df[1].nlambdas > df[Len(df)].nlambdas

====
